---- MODULE Spec2Model ----
(***************************************************************************)
(* The ITQ locality-sensitive hashing index of lshbox (itqlsh.h): the     *)
(* Parameter record, the per-table model (pcsAll, omegasAll, rndArray),   *)
(* the bucket tables, the hasher, the query path and the binary           *)
(* persistence, as a state machine.                                        *)
(*                                                                         *)
(* Conventions.  C++ vectors are sequences, so table k of the code is     *)
(* element k+1 here; bucket ids and vector ids keep their values.  A      *)
(* std::map is a function whose DOMAIN is the set of its keys.  32-bit    *)
(* floats are modelled by integers (every product and sum of the small    *)
(* values used here is exact in a float).  The eigen-decomposition and    *)
(* the SVDs of train are not computed: train stores any orthonormal basis *)
(* and any orthogonal rotation with integer entries.                      *)
(***************************************************************************)
EXTENDS Integers, Sequences, FiniteSets, TLC

\* ------------------------------------------------------------ bounds ----
Dim == 2
MaxM == 2
MaxL == 2
MaxN == 1
NRows == 2
MaxBucket == 2
MaxResets == 2
WordBits == 3
MaxFile == 13
MaxBits == 2
TrainRows == 3

\* ---------------------------------------------------------- constants ---
\* unsigned arithmetic wraps modulo 2^32 in the code; the model keeps the
\* wrap-around with words of WordBits bits (TLC's integers end at 2^31 - 1)
Wrap == 2 ^ WordBits
\* the value of a Parameter field that was never written (itqLsh() {})
Indet == -1

\* the index: param, pcsAll, omegasAll, rndArray, tables (lines 129-133)
\* file      the words of the file save wrote, <<>> when there is none
\* scan      the scanner of the query that just returned: the vector of its
\*           reset, the ids offered to it, the number of genTopk() calls;
\*           a scanner lives for one query
\* pc, trainK, seqs   the position of train, its k and its seqs
\* hret      the last call of getHashVal: k, domin and the value returned
\* inserted  the pairs <<key, vector>> inserted since the last reset, train
\*           or load;  stale  the pairs inserted before it
\* crashed   the process died
VARIABLES param, pcsAll, omegasAll, rndArray, tables,
          file, scan, pc, trainK, seqs, hret, inserted, stale, crashed

index == <<param, pcsAll, omegasAll, rndArray, tables>>
vars == <<param, pcsAll, omegasAll, rndArray, tables,
          file, scan, pc, trainK, seqs, hret, inserted, stale, crashed>>

\* ------------------------------------------------------------ inputs ----
Min(a, b) == IF a < b THEN a ELSE b

Unit(j, s) == [c \in 1..Dim |-> IF c = j THEN s ELSE 0]
Zero == [c \in 1..Dim |-> 0]

\* the vectors handed to insert, hash and query
Vecs == {Unit(j, 1) : j \in 1..Dim} \cup {Unit(Dim, -1)}

\* the dataset handed to train and hash: NRows rows of dimension Dim
Data == [i \in 1..NRows |-> Unit(((i - 1) % Dim) + 1, 1)]

\* the Parameter records handed to reset
ParamSet == [M : 0..MaxM, L : 1..MaxL, D : {Dim}, N : 1..Min(MaxN, Dim),
             S : {NRows}, I : {1}]

NoParam == [M |-> Indet, L |-> Indet, D |-> Indet, N |-> Indet, S |-> Indet, I |-> Indet]

\* ----------------------------------------------------------- helpers ----
\* std::vector::resize(n): keeps the first n elements, appends defaults
Resize(s, n, d) == [i \in 1..n |-> IF i <= Len(s) THEN s[i] ELSE d]

EmptyMap == <<>>

\* std::uniform_int_distribution<unsigned>(0, M - 1): M - 1 wraps to the largest
\* unsigned for M = 0, where the largest value stands for the whole range
RndDraws(M) == IF M = 0 THEN {Wrap - 1} ELSE 0..(M - 1)

\* ------------------------------------------------------------ hasher ----
RECURSIVE DotTo(_, _, _)
\* the inner loops of getHashVal: sum of a[j] * b[j] for j in 1..n
DotTo(a, b, n) == IF n = 0 THEN 0 ELSE DotTo(a, b, n - 1) + a[n] * b[n]

\* domin_pc: one projection per row of pcsAll[k]
DominPc(k, domin) ==
    [i \in 1..Len(pcsAll[k]) |-> DotTo(domin, pcsAll[k][i], Len(pcsAll[k][i]))]

\* product for bit i
Product(k, i, dpc) == DotTo(dpc, omegasAll[k][i], Len(omegasAll[k][i]))

RECURSIVE SumLoop_GE(_, _, _)
\* the loop with the test product >= 0
SumLoop_GE(k, dpc, i) ==
    IF i = 0 THEN 0
    ELSE IF Product(k, i, dpc) >= 0
         THEN (SumLoop_GE(k, dpc, i - 1) + rndArray[k][i]) % Wrap
         ELSE SumLoop_GE(k, dpc, i - 1)

RECURSIVE SumLoop(_, _, _)
\* the second loop of getHashVal after i bits: the running unsigned sum
SumLoop(k, dpc, i) ==
    IF i = 0 THEN 0
    ELSE IF Product(k, i, dpc) > 0
         THEN (SumLoop(k, dpc, i - 1) + rndArray[k][i]) % Wrap
         ELSE SumLoop(k, dpc, i - 1)

HashSum(k, domin) == SumLoop(k, DominPc(k, domin), Len(pcsAll[k]))

\* the hash without the final % param.M
getHashVal_NoMod(k, domin) == HashSum(k, domin)

\* getHashVal for param.M >= 1
getHashVal(k, domin) == HashSum(k, domin) % param.M

\* the values getHashVal can return.  sum % param.M with param.M = 0 is
\* undefined: the division traps (Crash below), or a divide instruction that
\* yields quotient 0 leaves the remainder sum - 0 * 0 = sum
HashVals(k, domin) ==
    IF param.M = 0 THEN {HashSum(k, domin)} ELSE {getHashVal(k, domin)}

\* -------------------------------------------------- training outcomes ---
Range(s) == {s[i] : i \in 1..Len(s)}

\* eig.eigenvectors().rightCols(npca): a D x N matrix with orthonormal
\* columns; here the eigenvectors are the axes in ascending order of their
\* eigenvalues, so that column i is the unit vector of axis Dim - N + i
PcaBases(N) ==
    {[j \in 1..Dim |-> [i \in 1..N |-> IF j = Dim - N + i THEN 1 ELSE 0]]}

\* the rotation R after the ITQ iterations: an orthogonal N x N matrix; here
\* a cyclic shift of the columns of the identity, with either sign
Rotations(N) ==
    {[j \in 1..N |-> [i \in 1..N |-> IF ((i + sh - 1) % N) + 1 = j THEN sg ELSE 0]] :
        sh \in {0, N - 1}, sg \in {1, -1}}

\* ------------------------------------------------------ construction ----
Scan0 == [v |-> Zero, ids |-> <<>>, topk |-> 0]
NoRet == [k |-> 0, v |-> Zero, h |-> 0]

\* itqLsh() {}: empty vectors, param never written
Init ==
    /\ param = NoParam
    /\ pcsAll = <<>> /\ omegasAll = <<>> /\ rndArray = <<>> /\ tables = <<>>
    /\ file = <<>> /\ hret = NoRet
    /\ scan = Scan0
    /\ pc = "idle" /\ trainK = 0 /\ seqs = <<>>
    /\ inserted = {} /\ stale = {}
    /\ crashed = FALSE

Ready == param.M # Indet
Callable == pc = "idle" /\ ~crashed

\* a new index object replaces the old one: itqLsh() {}
Construct ==
    /\ Callable
    /\ param' = NoParam
    /\ pcsAll' = <<>> /\ omegasAll' = <<>> /\ rndArray' = <<>> /\ tables' = <<>>
    /\ inserted' = {} /\ stale' = {}
    /\ scan' = Scan0 /\ UNCHANGED <<file, hret, pc, trainK, seqs, crashed>>

\* ------------------------------------------------------------- reset ----
MaxRndLen == MaxResets * Min(MaxN, Dim)

\* the draws of one reset, draws[k][i] for rndArray[k]; the generator is
\* seeded from the clock, and the streams considered repeat one value
Streams(p) == {[k \in 1..p.L |-> [i \in 1..p.N |-> d]] : d \in RndDraws(p.M)}

\* the push_back loop: N draws appended to every rndArray[k]
ResetRnd(old, p, draws) ==
    [k \in 1..p.L |-> Resize(old, p.L, <<>>)[k] \o draws[k]]

Reset(p) ==
    /\ Callable
    /\ \A k \in 1..Min(p.L, Len(rndArray)) : Len(rndArray[k]) + p.N <= MaxRndLen
    /\ param' = p
    /\ tables' = Resize(tables, p.L, EmptyMap)
    /\ pcsAll' = Resize(pcsAll, p.L, <<>>)
    /\ omegasAll' = Resize(omegasAll, p.L, <<>>)
    /\ \E draws \in Streams(p) : rndArray' = ResetRnd(rndArray, p, draws)
    /\ stale' = stale \cup inserted /\ inserted' = {}
    /\ scan' = Scan0 /\ UNCHANGED <<file, hret, pc, trainK, seqs, crashed>>

\* ------------------------------------------------------------- train ----
TrainBegin ==
    /\ Callable /\ Ready /\ param.I # Indet
    /\ pc' = "sample" /\ trainK' = 1 /\ seqs' = <<>>
    /\ scan' = Scan0 /\ UNCHANGED <<index, file, hret, inserted, stale, crashed>>

\* a pass that keeps the draw without looking for it in seqs
DrawStep_NoFind(s, target) == Append(s, target)

\* one pass of the while loop: a draw, kept when std::find does not find it
DrawStep(s, target) == IF target \in Range(s) THEN s ELSE Append(s, target)

Draw(target) ==
    /\ pc = "sample" /\ Len(seqs) # param.S
    /\ seqs' = DrawStep(seqs, target)
    /\ scan' = Scan0 /\ UNCHANGED <<index, file, hret, pc, trainK, inserted, stale, crashed>>

\* the loop condition fails; std::sort
Sort ==
    /\ pc = "sample" /\ Len(seqs) = param.S
    /\ seqs' = SortSeq(seqs, LAMBDA a, b : a < b)
    /\ pc' = "fit"
    /\ scan' = Scan0 /\ UNCHANGED <<index, file, hret, trainK, inserted, stale, crashed>>

\* lines 230-238: pcsAll[k][i][j] = mat_pca(j, i)
StorePcs(P) == [i \in 1..param.N |-> [j \in 1..param.D |-> P[j][i]]]

\* lines 221-229: omegasAll[k][i][j] = R(j, i)
StoreOmegas(R) == [i \in 1..param.N |-> [j \in 1..param.N |-> R[j][i]]]

\* PCA, ITQ and the transposed stores for table trainK, then ++k
Fit(P, R) ==
    /\ pc = "fit"
    /\ omegasAll' = [omegasAll EXCEPT ![trainK] = StoreOmegas(R)]
    /\ pcsAll' = [pcsAll EXCEPT ![trainK] = StorePcs(P)]
    /\ seqs' = <<>>
    /\ IF trainK = param.L
          THEN pc' = "idle" /\ trainK' = 0
          ELSE pc' = "sample" /\ trainK' = trainK + 1
    /\ stale' = stale \cup inserted /\ inserted' = {}
    /\ scan' = Scan0 /\ UNCHANGED <<param, rndArray, tables, file, hret, crashed>>

\* train(data) as one step, for a call that returns: with S <= n every
\* sampling loop ends, and each table k stores its basis and its rotation
Train(Ps, Rs) ==
    /\ Callable /\ Ready /\ param.I # Indet
    /\ param.S <= TrainRows
    /\ omegasAll' = [k \in 1..param.L |-> StoreOmegas(Rs[k])]
    /\ pcsAll' = [k \in 1..param.L |-> StorePcs(Ps[k])]
    /\ stale' = stale \cup inserted /\ inserted' = {}
    /\ scan' = Scan0
    /\ UNCHANGED <<param, rndArray, tables, file, hret, pc, trainK, seqs, crashed>>

\* ------------------------------------------------------ insert, hash ----
\* an assignment in place of push_back: the bucket holds the last key only
PushBack_Assign(map, h, key) == (h :> <<key>>) @@ map

\* tables[k][hashVal].push_back(key): operator[] creates the bucket
PushBack(map, h, key) ==
    IF h \in DOMAIN map THEN [map EXCEPT ![h] = Append(@, key)]
    ELSE (h :> <<key>>) @@ map

\* getHashVal(k, domin) for every table k, as insert and query compute it
HashChoices(domin) ==
    {h \in [1..param.L -> UNION {HashVals(k, domin) : k \in 1..param.L}] :
        \A k \in 1..param.L : h[k] \in HashVals(k, domin)}

\* the tables insert(key, domin) can leave
InsertResults(tabs, key, domin) ==
    {[k \in 1..param.L |-> PushBack(tabs[k], h[k], key)] : h \in HashChoices(domin)}

BucketsFit(tabs) ==
    \A k \in 1..Len(tabs) : \A h \in DOMAIN tabs[k] : Len(tabs[k][h]) <= MaxBucket

Insert(key, domin) ==
    /\ Callable /\ Ready
    /\ \E t \in InsertResults(tables, key, domin) :
          /\ BucketsFit(t)
          /\ tables' = t
    /\ inserted' = inserted \cup {<<key, domin>>}
    /\ scan' = Scan0
    /\ UNCHANGED <<param, pcsAll, omegasAll, rndArray, file, hret,
                   pc, trainK, seqs, stale, crashed>>

RECURSIVE HashResults(_, _)
\* the tables after the loop of hash(data) from row i on
HashResults(tabs, i) ==
    IF i = NRows THEN {tabs}
    ELSE UNION {HashResults(t, i + 1) : t \in InsertResults(tabs, i, Data[i + 1])}

Hash ==
    /\ Callable /\ Ready
    /\ \E t \in HashResults(tables, 0) :
          /\ BucketsFit(t)
          /\ tables' = t
    /\ inserted' = inserted \cup {<<i, Data[i + 1]>> : i \in 0..(NRows - 1)}
    /\ scan' = Scan0
    /\ UNCHANGED <<param, pcsAll, omegasAll, rndArray, file, hret,
                   pc, trainK, seqs, stale, crashed>>

\* ------------------------------------------------------------- query ----
RECURSIVE Feed(_, _, _)
\* the ids scanner(*iter) receives from tables 1..k, in order
Feed(tabs, h, k) ==
    IF k = 0 THEN <<>>
    ELSE Feed(tabs, h, k - 1) \o
         (IF h[k] \in DOMAIN tabs[k] THEN tabs[k][h[k]] ELSE <<>>)

\* tables[k].operator[](hashVal) on every table: creates the missing buckets
Lookup_Create(tabs, h) ==
    [k \in 1..Len(tabs) |->
        IF h[k] \in DOMAIN tabs[k] THEN tabs[k] ELSE (h[k] :> <<>>) @@ tabs[k]]

\* the tables after the lookups of query: tables[k][hashVal] is evaluated
\* only under tables[k].find(hashVal) != tables[k].end()
Lookup(tabs, h) == tabs

\* scanner.reset(domin), the L lookups, scanner.topk().genTopk()
Query(domin) ==
    /\ Callable /\ Ready
    /\ \E h \in HashChoices(domin) :
          /\ scan' = [v |-> domin, ids |-> Feed(tables, h, param.L), topk |-> 1]
          /\ tables' = Lookup(tables, h)
    /\ UNCHANGED <<param, pcsAll, omegasAll, rndArray, file, hret,
                   pc, trainK, seqs, inserted, stale, crashed>>

\* sum % param.M with param.M = 0 traps in insert, hash or query
Crash ==
    /\ Callable /\ Ready /\ param.M = 0
    /\ crashed' = TRUE
    /\ scan' = Scan0 /\ UNCHANGED <<index, file, hret, pc, trainK, seqs, inserted, stale>>

\* -------------------------------------------------------------- save ----
\* the file is the sequence of the 4-byte words written, in order

\* &pcsAll[i][j][0] and &omegasAll[i][j][0] point at D and N floats
\* for every i < L and j < N
InBounds ==
    \A i \in 1..param.L :
        /\ Len(pcsAll[i]) >= param.N /\ Len(omegasAll[i]) >= param.N
        /\ \A j \in 1..param.N :
              Len(pcsAll[i][j]) >= param.D /\ Len(omegasAll[i][j]) >= param.N

\* what a read past the end of a vector finds, when it does not trap: floats
\* that no row of the model holds
Garbage == {-7, -9}

RECURSIVE WriteBuckets(_, _)
\* the loop over the std::map, in ascending key order: target, length, ids
WriteBuckets(map, todo) ==
    IF todo = {} THEN <<>>
    ELSE LET target == CHOOSE x \in todo : \A y \in todo : x <= y
         IN  <<target, Len(map[target])>> \o map[target]
                \o WriteBuckets(map, todo \ {target})

\* sizeof(float) * param.D bytes from &pcsAll[i][j][0]
PcsRowOut(i, j, g) ==
    [c \in 1..param.D |->
        IF j <= Len(pcsAll[i]) /\ c <= Len(pcsAll[i][j]) THEN pcsAll[i][j][c] ELSE g]

\* sizeof(float) * param.N bytes from &omegasAll[i][j][0]
OmegasRowOut(i, j, g) ==
    [c \in 1..param.N |->
        IF j <= Len(omegasAll[i]) /\ c <= Len(omegasAll[i][j])
        THEN omegasAll[i][j][c] ELSE g]

RECURSIVE WriteRows(_, _, _)
WriteRows(i, j, g) ==
    IF j > param.N THEN <<>>
    ELSE PcsRowOut(i, j, g) \o OmegasRowOut(i, j, g) \o WriteRows(i, j + 1, g)

\* the block of table i: sizeof(unsigned) * param.N bytes from &rndArray[i][0],
\* the buckets, the rows
WriteTable(i, g) ==
    SubSeq(rndArray[i], 1, param.N)
        \o <<Cardinality(DOMAIN tables[i])>>
        \o WriteBuckets(tables[i], DOMAIN tables[i])
        \o WriteRows(i, 1, g)

RECURSIVE WriteTables(_, _)
WriteTables(i, g) ==
    IF i > param.L THEN <<>> ELSE WriteTable(i, g) \o WriteTables(i + 1, g)

SaveBytes(g) ==
    <<param.M, param.L, param.D, param.N, param.S>> \o WriteTables(1, g)

Save ==
    /\ Callable /\ Ready
    /\ \E g \in (IF InBounds THEN {0} ELSE Garbage) :
          /\ Len(SaveBytes(g)) <= MaxFile
          /\ file' = SaveBytes(g)
    /\ scan' = Scan0
    /\ UNCHANGED <<index, pc, trainK, seqs, hret, inserted, stale, crashed>>

\* the read past the end of a vector traps
SaveCrash ==
    /\ Callable /\ Ready /\ ~InBounds
    /\ crashed' = TRUE
    /\ scan' = Scan0
    /\ UNCHANGED <<index, file, hret, pc, trainK, seqs, inserted, stale>>

\* -------------------------------------------------------------- load ----
ReadWords(f, pos, n) == [i \in 1..n |-> f[pos + i - 1]]

\* tables[i][target].resize(length) and the read over its elements
SetBucket(map, target, ids) ==
    IF target \in DOMAIN map THEN [map EXCEPT ![target] = ids]
    ELSE (target :> ids) @@ map

RECURSIVE ReadBuckets(_, _, _, _)
\* count buckets from word pos on, into map
ReadBuckets(f, pos, count, map) ==
    IF count = 0 THEN [map |-> map, pos |-> pos]
    ELSE LET target == f[pos]
             length == f[pos + 1]
         IN  ReadBuckets(f, pos + 2 + length, count - 1,
                         SetBucket(map, target, ReadWords(f, pos + 2, length)))

\* the block of one table from word pos on; map is tables[i] before the call
LoadTable(f, pos, map, N, D) ==
    LET b == ReadBuckets(f, pos + N + 1, f[pos + N], map)
    IN  [rnd |-> ReadWords(f, pos, N),
         map |-> b.map,
         pcs |-> [j \in 1..N |-> ReadWords(f, b.pos + (j - 1) * (D + N), D)],
         omegas |-> [j \in 1..N |-> ReadWords(f, b.pos + (j - 1) * (D + N) + D, N)],
         pos |-> b.pos + N * (D + N)]

RECURSIVE LoadTables(_, _, _, _, _, _, _)
LoadTables(f, pos, i, L, N, D, tabs) ==
    IF i > L THEN <<>>
    ELSE LET t == LoadTable(f, pos, tabs[i], N, D)
         IN  <<t>> \o LoadTables(f, t.pos, i + 1, L, N, D, tabs)

\* the per-table blocks of file f read over the tables tabs
FileBlocks(f, tabs) ==
    LoadTables(f, 6, 1, f[2], f[4], f[3], Resize(tabs, f[2], EmptyMap))

\* the arrays of an index whose tables were tabs, after load read file f
LoadResult(f, tabs) ==
    LET ts == FileBlocks(f, tabs)
    IN  [rnd |-> [i \in 1..f[2] |-> ts[i].rnd],
         tables |-> [i \in 1..f[2] |-> ts[i].map],
         pcs |-> [i \in 1..f[2] |-> ts[i].pcs],
         omegas |-> [i \in 1..f[2] |-> ts[i].omegas]]

Load ==
    /\ Callable /\ Len(file) > 0
    /\ param' = [param EXCEPT !.M = file[1], !.L = file[2], !.D = file[3],
                              !.N = file[4], !.S = file[5]]
    /\ LET r == LoadResult(file, tables)
       IN  /\ rndArray' = r.rnd
           /\ tables' = r.tables
           /\ pcsAll' = r.pcs
           /\ omegasAll' = r.omegas
    /\ stale' = stale \cup inserted /\ inserted' = {}
    /\ scan' = Scan0
    /\ UNCHANGED <<file, hret, pc, trainK, seqs, crashed>>

\* vector ids are row numbers of the dataset
Keys == 0..(NRows - 1)

\* ------------------------------------------------------------------------
\* The life of one index: construction, reset, train, insert, hash, query.
Next ==
    \/ Construct
    \/ \E p \in ParamSet : Reset(p)
    \/ \E Ps \in [1..param.L -> PcaBases(param.N)],
          Rs \in [1..param.L -> Rotations(param.N)] : Train(Ps, Rs)
    \/ \E key \in Keys : Insert(key, Data[key + 1])
    \/ Hash
    \/ \E v \in Vecs : Query(v)
    \/ Crash

Spec == Init /\ [][Next]_vars

\* ------------------------------------------------------------------------
\* The same life with valid Parameters only (M >= 1): no call is undefined.
ValidParams == {p \in ParamSet : p.M >= 1}

ValidNext ==
    \/ Construct
    \/ \E p \in ValidParams : Reset(p)
    \/ \E Ps \in [1..param.L -> PcaBases(param.N)],
          Rs \in [1..param.L -> Rotations(param.N)] : Train(Ps, Rs)
    \/ \E key \in Keys : Insert(key, Data[key + 1])
    \/ Hash
    \/ \E v \in Vecs : Query(v)

ValidSpec == Init /\ [][ValidNext]_vars

\* ------------------------------------------------------------------------
\* Persistence: files of at most MaxFile words, written and read back by
\* indexes reset with the largest modulus.
PersistParams == {p \in ParamSet : p.M = MaxM}

PersistNext ==
    \/ Construct
    \/ \E p \in PersistParams : Reset(p)
    \/ \E Ps \in [1..param.L -> PcaBases(param.N)],
          Rs \in [1..param.L -> Rotations(param.N)] : Train(Ps, Rs)
    \/ \E key \in Keys : Insert(key, Data[key + 1])
    \/ Save
    \/ SaveCrash
    \/ Load

PersistSpec == Init /\ [][PersistNext]_vars

\* ------------------------------------------------------------------------
\* The sampling loop of train, pass by pass, on an index built by
\* itqLsh(param_); the dataset has TrainRows rows.
TrainParams == [M : {MaxM}, L : 1..MaxL, D : {Dim}, N : 1..Min(MaxN, Dim),
                S : 2..(TrainRows + 1), I : {1}]

\* itqLsh(const Parameter &param_): reset(param_) on the empty index
TrainInit ==
    /\ param \in TrainParams
    /\ pcsAll = [k \in 1..param.L |-> <<>>]
    /\ omegasAll = [k \in 1..param.L |-> <<>>]
    /\ tables = [k \in 1..param.L |-> EmptyMap]
    /\ rndArray \in {ResetRnd(<<>>, param, d) : d \in Streams(param)}
    /\ file = <<>> /\ hret = NoRet
    /\ scan = Scan0
    /\ pc = "idle" /\ trainK = 0 /\ seqs = <<>>
    /\ inserted = {} /\ stale = {}
    /\ crashed = FALSE

\* a pass of the loop whose draw is a row not drawn before
DrawNew(target) == Draw(target) /\ target \notin Range(seqs)

FitAny == \E P \in PcaBases(param.N), R \in Rotations(param.N) : Fit(P, R)

TrainNext ==
    \/ TrainBegin
    \/ \E t \in 0..(TrainRows - 1) : Draw(t)
    \/ Sort
    \/ FitAny

\* the generator draws every row again and again; the code after the loop runs
TrainSpec ==
    /\ TrainInit /\ [][TrainNext]_vars
    /\ \A t \in 0..(TrainRows - 1) : WF_vars(DrawNew(t))
    /\ WF_vars(Sort)
    /\ WF_vars(FitAny)

\* ------------------------------------------------------------------------
\* getHashVal as a function of the model of a table and of the vector.
HashParams == [M : 1..MaxM, L : {MaxL}, D : {Dim}, N : 1..Min(MaxBits, Dim),
               S : {NRows}, I : {1}]

\* the vectors hashed: the axes, a negated axis, the sum of the axes
HashVecs == Vecs \cup {[c \in 1..Dim |-> 1]}

\* omegasAll[k]: the signed cyclic permutations, and the identity with one
\* row replaced by the zero row or by the row (1, -1, 0, ...)
OmegaModels(n) ==
    LET perm(sh, sg) ==
            [i \in 1..n |->
                [c \in 1..n |-> IF c = ((i - 1 + sh) % n) + 1 THEN sg ELSE 0]]
        mixed == [c \in 1..n |-> IF c = 1 THEN 1 ELSE IF c = 2 THEN -1 ELSE 0]
        zero == [c \in 1..n |-> 0]
    IN  {perm(sh, sg) : sh \in 0..(n - 1), sg \in {1, -1}}
            \cup {[perm(0, 1) EXCEPT ![i] = r] : i \in 1..n, r \in {mixed, zero}}

\* rows of pcsAll[k]: the first n axes, in either order
PcsModels(n) ==
    {[i \in 1..n |-> Unit(i, 1)], [i \in 1..n |-> Unit(n + 1 - i, 1)]}

\* weights: values below some modulus, and the largest unsigned
Weights == {0, 1, Wrap - 1}

\* a table that was never trained, or one trained or loaded with N bits
TableModels(N) ==
    [pcs : {<<>>}, omegas : {<<>>}, rnd : [1..N -> Weights]]
        \cup [pcs : PcsModels(N), omegas : OmegaModels(N), rnd : [1..N -> Weights]]

HashInit ==
    /\ param \in HashParams
    /\ \E t \in TableModels(param.N) :
          /\ pcsAll = [k \in 1..param.L |-> t.pcs]
          /\ omegasAll = [k \in 1..param.L |-> t.omegas]
          /\ rndArray = [k \in 1..param.L |-> t.rnd]
    /\ tables = [k \in 1..param.L |-> EmptyMap]
    /\ file = <<>> /\ hret = NoRet
    /\ scan = Scan0
    /\ pc = "idle" /\ trainK = 0 /\ seqs = <<>>
    /\ inserted = {} /\ stale = {}
    /\ crashed = FALSE

GetHashVal(k, domin) ==
    /\ Callable /\ Ready /\ param.M >= 1
    /\ hret' = [k |-> k, v |-> domin, h |-> getHashVal(k, domin)]
    /\ UNCHANGED <<index, file, scan, pc, trainK, seqs, inserted, stale, crashed>>

HashNext == \E k \in 1..param.L, v \in HashVecs : GetHashVal(k, v)

HashSpec == HashInit /\ [][HashNext]_vars

\* ========================================================================
\* Properties
\* ========================================================================
RECURSIVE SumFn(_, _)
\* the sum of f[x] over x in S
SumFn(f, S) ==
    IF S = {} THEN 0
    ELSE LET x == CHOOSE y \in S : TRUE IN f[x] + SumFn(f, S \ {x})

\* the number of occurrences of x in the sequence s
Count(s, x) == Cardinality({i \in 1..Len(s) : s[i] = x})

\* C1: with M >= 1, every value getHashVal(k, v) returns lies in [0, M),
\* whatever pcsAll, omegasAll and rndArray hold.
HashValInRange == hret.k >= 1 => (0 <= hret.h /\ hret.h < param.M)

\* a call whose weight sum is at least M and that returns M - 1
HashValInRangeWitness ==
    /\ hret.k >= 1
    /\ HashSum(hret.k, hret.v) >= param.M
    /\ param.M >= 2 /\ hret.h = param.M - 1

\* the projection p[j] and the rotated projection s[i] of vector v in table k
Proj(k, v, j) == SumFn([c \in 1..param.D |-> v[c] * pcsAll[k][j][c]], 1..param.D)
Rotated(k, v, i) ==
    SumFn([j \in 1..param.N |-> Proj(k, v, j) * omegasAll[k][i][j]], 1..param.N)
PositiveBits(k, v) == {i \in 1..param.N : Rotated(k, v, i) > 0}

\* C9: on a table trained or loaded with N bits, getHashVal(k, v) is the sum
\* of rnd[k][i] over the bits i with s[i] > 0, modulo 2^w, modulo M; bits
\* with s[i] <= 0 add nothing, so vectors with the same positive bits get
\* the same bucket id.
HashIsWeightSum ==
    (hret.k >= 1 /\ Len(pcsAll[hret.k]) = param.N) =>
        /\ hret.h = (SumFn(rndArray[hret.k], PositiveBits(hret.k, hret.v)) % Wrap)
                        % param.M
        /\ \A w \in HashVecs :
              PositiveBits(hret.k, w) = PositiveBits(hret.k, hret.v)
                  => getHashVal(hret.k, w) = hret.h

\* a call with a bit whose s[i] is exactly 0 and whose weight is not a
\* multiple of M, next to a bit with s[i] > 0
HashIsWeightSumWitness ==
    /\ hret.k >= 1 /\ Len(pcsAll[hret.k]) = param.N
    /\ \E i \in 1..param.N :
          /\ Rotated(hret.k, hret.v, i) = 0
          /\ rndArray[hret.k][i] % param.M # 0
    /\ PositiveBits(hret.k, hret.v) # {}
    /\ hret.h # 0

\* seqs after the loop and the sort: S row numbers, strictly ascending
SeqsSampled ==
    /\ Len(seqs) = param.S
    /\ \A i \in 1..Len(seqs) : seqs[i] \in 0..(TrainRows - 1)
    /\ \A i, j \in 1..Len(seqs) : i < j => seqs[i] < seqs[j]

\* C8: with S <= n the sampling loop of every table ends, under fair draws,
\* and seqs then holds S distinct rows of [0, n) in ascending order; with
\* S > n the loop never ends and train never reaches the PCA step.
SubsampleLoop ==
    /\ [](pc = "fit" => SeqsSampled)
    /\ [](param.S > TrainRows => pc # "fit")
    /\ ((pc = "sample" /\ param.S <= TrainRows) ~> (pc = "fit"))

\* the second table of a train reached the PCA step with a proper subsample
SubsampleLoopWitness ==
    /\ pc = "fit" /\ trainK = 2
    /\ Len(seqs) = param.S /\ param.S < TrainRows

\* C3 (as amended): with M >= 1, a query(v) delivers every key inserted with
\* vector v since the last reset, train or load.
QueryFindsInserted ==
    (scan.topk >= 1 /\ param.M >= 1) =>
        \A pr \in inserted : pr[2] = scan.v => pr[1] \in Range(scan.ids)

\* a query over two tables that delivered an inserted key
QueryFindsInsertedWitness ==
    /\ scan.topk = 1 /\ param.M >= 2 /\ param.L = 2
    /\ \E pr \in inserted : pr[2] = scan.v /\ pr[1] \in Range(scan.ids)
    /\ \E pr \in inserted : pr[2] # scan.v /\ pr[1] \notin Range(scan.ids)

\* C3 (as claimed): a query(v) delivers every key ever inserted with vector v.
QueryFindsEverInserted ==
    scan.topk >= 1 =>
        \A pr \in inserted \cup stale : pr[2] = scan.v => pr[1] \in Range(scan.ids)

\* the ids are those of the buckets v hashes to, once per occurrence; a table
\* without that bucket contributes none
Delivered(v, ids) ==
    \E h \in HashChoices(v) :
        \A x \in Keys \cup Range(ids) :
            Count(ids, x) =
                SumFn([k \in 1..param.L |->
                          IF h[k] \in DOMAIN tables[k]
                          THEN Count(tables[k][h[k]], x) ELSE 0], 1..param.L)

\* C10: query changes nothing in the index, creates no bucket, offers the
\* scanner exactly the ids of the buckets found, and calls genTopk() once.
QueryLeavesIndex ==
    [][scan'.topk # 0 =>
          /\ index' = index
          /\ scan'.topk = 1
          /\ Delivered(scan'.v, scan'.ids)]_vars

\* a query that found no bucket in any of two tables, one of them populated
QueryLeavesIndexWitness ==
    /\ scan.topk = 1 /\ scan.ids = <<>>
    /\ param.L = 2
    /\ \E k \in 1..Len(tables) : DOMAIN tables[k] # {}

\* C4: every bucket id of every table is below the current M.
BucketIdsBelowM ==
    (Ready /\ param.M >= 1) =>
        \A k \in 1..Len(tables) : \A b \in DOMAIN tables[k] : b < param.M

\* C6: after reset(p), every rnd[k] holds exactly N entries, all below M.
ResetFillsRnd ==
    [][\A p \in ParamSet :
          (p.M >= 1 /\ Reset(p)) =>
              \A k \in 1..p.L :
                  /\ Len(rndArray'[k]) = p.N
                  /\ \A i \in 1..Len(rndArray'[k]) : rndArray'[k][i] < p.M]_vars

\* C7: reset with an invalid Parameter (M = 0) changes no state of the index.
InvalidParamRejected ==
    [][\A p \in ParamSet : (p.M = 0 /\ Reset(p)) => index' = index]_vars

\* C2: for an index whose rows save can read, the file save writes, loaded
\* into a fresh index, gives back M, L, D, N, S and all four arrays.
SaveLoadRoundTrip ==
    (Callable /\ Ready /\ InBounds) =>
        LET f == SaveBytes(0)
            r == LoadResult(f, <<>>)
        IN  /\ <<f[1], f[2], f[3], f[4], f[5]>>
                   = <<param.M, param.L, param.D, param.N, param.S>>
            /\ r.rnd = rndArray
            /\ r.pcs = pcsAll
            /\ r.omegas = omegasAll
            /\ r.tables = tables

\* the file holds no word that save read past the end of a vector
Sound(f) == \A i \in 1..Len(f) : f[i] \notin Garbage

\* C5: after load of a file that save wrote, the four arrays are those of
\* the file, whatever the index held before.
LoadReplacesState ==
    [][(Load /\ Sound(file)) =>
          LET r == LoadResult(file, <<>>)
          IN  /\ tables' = r.tables
              /\ rndArray' = r.rnd
              /\ pcsAll' = r.pcs
              /\ omegasAll' = r.omegas]_vars

====
